---- MODULE Spec2Model ----
(***************************************************************************)
(* Model of the LSP server skeleton in src/src/main.rs.                    *)
(*                                                                         *)
(* main() performs the initialize handshake through                        *)
(* Connection::initialize, then runs main_loop, which receives messages    *)
(* from the connection's inbound channel and answers                       *)
(* textDocument/definition requests with an empty array.  The peer is the  *)
(* environment: at every receive it supplies the next message, closes the  *)
(* stream, or sends a malformed frame.                                     *)
(*                                                                         *)
(* The connection is shared through Arc<Mutex<Connection>>: `mutex` is the *)
(* thread that holds it.  SpecCmd adds a second thread that calls          *)
(* read_and_send_command while main_loop runs.                             *)
(***************************************************************************)
EXTENDS Integers, Sequences, FiniteSets, TLC

(* ---- bounds ---- *)
MaxId == 2
MaxRecv == 4
MaxPreInit == 2
MaxCmd == 2

(* ---- message model (lsp_server::Message) ---- *)
NoId == 0
Ids == 1..MaxId

INITIALIZE == "initialize"
INITIALIZED == "initialized"
SHUTDOWN == "shutdown"
EXIT == "exit"
GOTO_DEFINITION == "textDocument/definition"

RequestMethods == {INITIALIZE, SHUTDOWN, GOTO_DEFINITION, "workspace/symbol"}
NotificationMethods == {INITIALIZED, EXIT, "$/cancelRequest"}

\* JSON payloads, classed by the lsp_types structure they deserialize to.
Params == {"InitializeParams", "GotoDefinitionParams", "null"}
\* The payloads the peer sends with a method: the well-formed one, or null.
ParamsOf(method) ==
    IF method = INITIALIZE THEN {"InitializeParams", "null"}
    ELSE IF method = GOTO_DEFINITION THEN {"GotoDefinitionParams", "null"}
    ELSE {"null"}

Request(id, method, params) ==
    [kind |-> "Request", id |-> id, method |-> method, params |-> params]
Notification(method, params) ==
    [kind |-> "Notification", id |-> NoId, method |-> method, params |-> params]
PeerResponse(id) ==
    [kind |-> "Response", id |-> id, method |-> "", params |-> "null"]

Requests ==
    {r \in {Request(i, m, p) : i \in Ids, m \in RequestMethods, p \in Params} :
        r.params \in ParamsOf(r.method)}
Notifications == {Notification(m, "null") : m \in NotificationMethods}
PeerResponses == {PeerResponse(i) : i \in Ids}
Messages == Requests \cup Notifications \cup PeerResponses

NoMsg == [kind |-> "None", id |-> NoId, method |-> "", params |-> "null"]

is_initialize(m) == m.kind = "Request" /\ m.method = INITIALIZE
is_shutdown(m) == m.kind = "Request" /\ m.method = SHUTDOWN
is_initialized(m) == m.kind = "Notification" /\ m.method = INITIALIZED
is_exit(m) == m.kind = "Notification" /\ m.method = EXIT

(* ---- responses written by the server (lsp_server::Response) ---- *)
NoError == "none"
ServerNotInitialized == "ServerNotInitialized"
InvalidRequest == "InvalidRequest"
InvalidParams == "InvalidParams"
MethodNotFound == "MethodNotFound"

new_ok(id, result) == [id |-> id, result |-> result, error |-> NoError]
new_err(id, code) == [id |-> id, result |-> "none", error |-> code]

\* serde_json::to_value(Some(GotoDefinitionResponse::Array(Vec::new())))
EmptyArray == "[]"
\* json!({"capabilities": server_capabilities})
InitializeResult == "{capabilities}"
\* serde_json::to_value(())
Unit == "null"

(* ---- deserialization ---- *)
\* serde_json::from_value::<InitializeParams>(params)
DecodesInitializeParams(p) == p = "InitializeParams"
\* Request::extract's serde_json::from_value::<GotoDefinitionParams>
DecodesGotoDefinitionParams(p) == p = "GotoDefinitionParams"

\* cast::<GotoDefinition>(req): req.extract(GotoDefinition::METHOD)
cast(req) ==
    IF req.method # GOTO_DEFINITION THEN "MethodMismatch"
    ELSE IF DecodesGotoDefinitionParams(req.params) THEN "Ok"
    ELSE "JsonError"

(* ---- commands read from the json files (struct Command, lines 35-41) ---- *)
Command(method, id, params) == [method |-> method, id |-> id, params |-> params]

\* the commands the files hold; id NoId stands for a file without an id
Commands ==
    {Command(GOTO_DEFINITION, i, "null") : i \in {NoId} \cup Ids}
        \cup {Command(EXIT, NoId, "null")}

NoCommand == Command("", NoId, "null")

\* line 141: command.id.unwrap_or(1)
DefaultId == 1
request_id(c) == IF c.id = NoId THEN DefaultId ELSE c.id

VARIABLES
    pc,                     \* position of the main thread
    reader,                 \* stdio reader thread: open, stopped (Ok), failed (Err)
    received,               \* messages taken from connection.receiver, in order
    out,                    \* responses handed to connection.sender, in order
    msg,                    \* the message last received
    sent0,                  \* Len(out) when msg was received
    recv_at,                \* where the main thread was when it received msg
    initialization_params,  \* params of the initialize request
    initialize_id,          \* id of the initialize request
    loopResult,             \* what main_loop returned
    mainResult,             \* what main returned
    mutex,                  \* the thread that holds the connection mutex
    cmd_pc,                 \* position of a thread calling read_and_send_command
    command,                \* the Command that thread has parsed
    cmd_calls               \* the calls of read_and_send_command so far

cmd_vars == <<cmd_pc, command, cmd_calls>>

vars == <<pc, reader, received, out, msg, sent0, recv_at,
          initialization_params, initialize_id, loopResult, mainResult,
          mutex, cmd_pc, command, cmd_calls>>

Init ==
    /\ pc = "initialize_start"
    /\ reader = "open"
    /\ received = <<>>
    /\ out = <<>>
    /\ msg = NoMsg
    /\ sent0 = 0
    /\ recv_at = "none"
    /\ initialization_params = "null"
    /\ initialize_id = NoId
    /\ loopResult = "none"
    /\ mainResult = "none"
    /\ mutex = "main"
    /\ cmd_pc = "none"
    /\ command = NoCommand
    /\ cmd_calls = 0

(* ---- the inbound channel ---- *)
\* receiver.recv() returns Ok(m): the reader thread forwards m and stops
\* after forwarding an exit notification.
RecvOk(m) ==
    /\ reader = "open"
    /\ Len(received) < MaxRecv
    /\ m \in Messages
    /\ received' = Append(received, m)
    /\ msg' = m
    /\ sent0' = Len(out)
    /\ recv_at' = pc
    /\ reader' = IF is_exit(m) THEN "stopped" ELSE "open"

\* receiver.recv() returns Err: the reader thread has ended, or ends now on
\* end of stream (Ok) or on a malformed frame (Err).
RecvErr ==
    /\ reader' \in (IF reader = "open" THEN {"stopped", "failed"} ELSE {reader})
    /\ UNCHANGED <<received, msg, sent0, recv_at>>

(* ---- main: Connection::initialize (line 62) ---- *)
\* main returns Err(e) (lines 68, 98): the process ends with an error status.
MainErr ==
    /\ mainResult' = "Err"
    /\ pc' = "exit"

\* a reply with the wrong error code
not_initialized_response_mut(req) == new_err(req.id, InvalidRequest)

\* initialize_start's reply to a request that is not initialize
not_initialized_response(req) == new_err(req.id, ServerNotInitialized)

\* the messages initialize_start answers or skips, staying in its loop
DiscardedBeforeInitialize(m) ==
    \/ m.kind = "Request" /\ ~is_initialize(m)
    \/ m.kind = "Notification" /\ ~is_exit(m)

\* initialize_start: one iteration of its receive loop with message m
initialize_start(m) ==
    /\ pc = "initialize_start"
    /\ mutex' = IF is_initialize(m) \/ DiscardedBeforeInitialize(m) THEN mutex ELSE "free"
    /\ UNCHANGED cmd_vars
    /\ RecvOk(m)
    /\ DiscardedBeforeInitialize(m) => Len(received) < MaxPreInit
    /\ IF is_initialize(m)
         THEN /\ initialize_id' = m.id
              /\ initialization_params' = m.params
              /\ pc' = "initialize_finish"
              /\ UNCHANGED <<out, loopResult, mainResult>>
       ELSE IF m.kind = "Request"
         THEN /\ out' = Append(out, not_initialized_response(m))
              /\ UNCHANGED <<pc, initialize_id, initialization_params,
                             loopResult, mainResult>>
       ELSE IF m.kind = "Notification" /\ ~is_exit(m)
         THEN UNCHANGED <<pc, out, initialize_id, initialization_params,
                          loopResult, mainResult>>
       ELSE /\ MainErr
            /\ UNCHANGED <<out, initialize_id, initialization_params, loopResult>>

\* initialize_start: the channel is disconnected; main joins the io threads
\* (line 66) before returning the error
initialize_start_disconnected ==
    /\ pc = "initialize_start"
    /\ UNCHANGED mutex
    /\ UNCHANGED cmd_vars
    /\ RecvErr
    /\ pc' = "join"
    /\ UNCHANGED <<out, initialize_id, initialization_params, loopResult,
                   mainResult>>

\* initialize_finish: send the capabilities reply
initialize_finish_send ==
    /\ pc = "initialize_finish"
    /\ UNCHANGED mutex
    /\ UNCHANGED cmd_vars
    /\ out' = Append(out, new_ok(initialize_id, InitializeResult))
    /\ pc' = "initialize_finish_recv"
    /\ UNCHANGED <<reader, received, msg, sent0, recv_at, initialize_id,
                   initialization_params, loopResult, mainResult>>

\* initialize_finish: wait for the initialized notification
initialize_finish(m) ==
    /\ pc = "initialize_finish_recv"
    /\ mutex' = "free"
    /\ UNCHANGED cmd_vars
    /\ RecvOk(m)
    /\ IF is_initialized(m)
         THEN /\ pc' = "main_loop"
              /\ UNCHANGED mainResult
         ELSE MainErr
    /\ UNCHANGED <<out, initialize_id, initialization_params, loopResult>>

initialize_finish_disconnected ==
    /\ pc = "initialize_finish_recv"
    /\ UNCHANGED mutex
    /\ UNCHANGED cmd_vars
    /\ RecvErr
    /\ pc' = "join"
    /\ UNCHANGED <<out, initialize_id, initialization_params, loopResult,
                   mainResult>>

(* ---- main_loop (lines 149-192) ---- *)
\* main_loop returns Err through `?`, and main returns it through `?` (line 98)
LoopErr ==
    /\ loopResult' = "Err"
    /\ MainErr

\* main_loop returns Ok(()); main goes on to io_threads.join() (line 99)
LoopOk ==
    /\ loopResult' = "Ok"
    /\ pc' = "join"
    /\ UNCHANGED mainResult

\* the places where main_loop calls connection.lock(): lines 157, 166, 176
AtLock(p, m) ==
    \/ p = "recv"
    \/ p = "match" /\ m.kind = "Request"
    \/ p = "send"

\* connection.lock().unwrap() in main_loop: blocks until the mutex is free
main_loop_lock ==
    /\ AtLock(pc, msg)
    /\ mutex = "free"
    /\ mutex' = "main"
    /\ UNCHANGED <<pc, reader, received, out, msg, sent0, recv_at, initialize_id,
                   initialization_params, loopResult, mainResult>>
    /\ UNCHANGED cmd_vars

\* line 153: let _params: InitializeParams = serde_json::from_value(params)?
main_loop_params ==
    /\ pc = "main_loop"
    /\ UNCHANGED mutex
    /\ UNCHANGED cmd_vars
    /\ IF DecodesInitializeParams(initialization_params)
         THEN /\ pc' = "recv"
              /\ UNCHANGED <<loopResult, mainResult>>
         ELSE LoopErr
    /\ UNCHANGED <<reader, received, out, msg, sent0, recv_at, initialize_id,
                   initialization_params>>

\* a receive block whose guard outlives the block
main_loop_recv_mut(m) ==
    /\ pc = "recv"
    /\ mutex = "main"
    /\ UNCHANGED mutex
    /\ UNCHANGED cmd_vars
    /\ RecvOk(m)
    /\ pc' = "match"
    /\ UNCHANGED <<out, initialize_id, initialization_params, loopResult,
                   mainResult>>

\* lines 156-162: Ok(msg) => msg
main_loop_recv(m) ==
    /\ pc = "recv"
    /\ mutex = "main"
    /\ mutex' = "free"
    /\ UNCHANGED cmd_vars
    /\ RecvOk(m)
    /\ pc' = "match"
    /\ UNCHANGED <<out, initialize_id, initialization_params, loopResult,
                   mainResult>>

\* a loop that reports the end of the inbound stream as an error
main_loop_recv_err_mut ==
    /\ pc = "recv"
    /\ mutex = "main"
    /\ mutex' = "free"
    /\ UNCHANGED cmd_vars
    /\ RecvErr
    /\ LoopErr
    /\ UNCHANGED <<out, initialize_id, initialization_params>>

\* lines 160, 191: Err(_) => break, then Ok(())
main_loop_recv_err ==
    /\ pc = "recv"
    /\ mutex = "main"
    /\ mutex' = "free"
    /\ UNCHANGED cmd_vars
    /\ RecvErr
    /\ LoopOk
    /\ UNCHANGED <<out, initialize_id, initialization_params>>

\* a shutdown reply that reports an error
shutdown_response_mut(req) == new_err(req.id, InvalidRequest)

\* handle_shutdown's reply to the shutdown request
shutdown_response(req) == new_ok(req.id, Unit)

\* lines 165-166: Message::Request(req), handle_shutdown up to its receive
main_loop_request ==
    /\ pc = "match"
    /\ mutex = "main"
    /\ mutex' = IF is_shutdown(msg) THEN "main" ELSE "free"
    /\ UNCHANGED cmd_vars
    /\ msg.kind = "Request"
    /\ IF is_shutdown(msg)
         THEN /\ out' = Append(out, shutdown_response(msg))
              /\ pc' = "handle_shutdown"
         ELSE /\ pc' = "cast"
              /\ UNCHANGED out
    /\ UNCHANGED <<reader, received, msg, sent0, recv_at, initialize_id,
                   initialization_params, loopResult, mainResult>>

\* handle_shutdown's verdict on the message that follows shutdown
shutdown_next(m) == IF is_exit(m) THEN "Ok" ELSE "Err"

\* lines 166-168: handle_shutdown's recv_timeout delivers m
handle_shutdown(m) ==
    /\ pc = "handle_shutdown"
    /\ mutex' = "free"
    /\ UNCHANGED cmd_vars
    /\ RecvOk(m)
    /\ IF shutdown_next(m) = "Ok" THEN LoopOk ELSE LoopErr
    /\ UNCHANGED <<out, initialize_id, initialization_params>>

\* line 166: handle_shutdown's recv_timeout times out or finds the channel
\* disconnected
handle_shutdown_err ==
    /\ pc = "handle_shutdown"
    /\ mutex' = "free"
    /\ UNCHANGED cmd_vars
    /\ \/ UNCHANGED <<reader, received, msg, sent0, recv_at>>
       \/ RecvErr
    /\ LoopErr
    /\ UNCHANGED <<out, initialize_id, initialization_params>>

\* a loop that restarts the handshake on a second initialize request
main_loop_cast_mut ==
    /\ pc = "cast"
    /\ UNCHANGED mutex
    /\ UNCHANGED cmd_vars
    /\ LET r == cast(msg) IN
         IF r = "Ok"
           THEN /\ pc' = "send"
                /\ UNCHANGED <<loopResult, mainResult>>
         ELSE IF r = "JsonError"
           THEN /\ loopResult' = "panic"
                /\ mainResult' = "panic"
                /\ pc' = "exit"
         ELSE /\ pc' = IF is_initialize(msg) THEN "initialize_finish" ELSE "recv"
              /\ UNCHANGED <<loopResult, mainResult>>
    /\ UNCHANGED <<reader, received, out, msg, sent0, recv_at, initialize_id,
                   initialization_params>>

\* lines 170-181: match cast::<GotoDefinition>(req)
main_loop_cast ==
    /\ pc = "cast"
    /\ UNCHANGED mutex
    /\ UNCHANGED cmd_vars
    /\ LET r == cast(msg) IN
         IF r = "Ok"
           THEN /\ pc' = "send"
                /\ UNCHANGED <<loopResult, mainResult>>
         ELSE IF r = "JsonError"
           THEN /\ loopResult' = "panic"
                /\ mainResult' = "panic"
                /\ pc' = "exit"
         ELSE /\ pc' = "recv"
              /\ UNCHANGED <<loopResult, mainResult>>
    /\ UNCHANGED <<reader, received, out, msg, sent0, recv_at, initialize_id,
                   initialization_params>>

\* a definition response whose result is None
definition_response_mut(req) == new_ok(req.id, Unit)

\* lines 173-175: the response to a definition request
definition_response(req) == new_ok(req.id, EmptyArray)

\* a loop that sends the definition response twice
main_loop_send_twice ==
    /\ pc = "send"
    /\ mutex = "main"
    /\ mutex' = "free"
    /\ UNCHANGED cmd_vars
    /\ out' = out \o <<definition_response(msg), definition_response(msg)>>
    /\ pc' = "recv"
    /\ UNCHANGED <<reader, received, msg, sent0, recv_at, initialize_id,
                   initialization_params, loopResult, mainResult>>

\* a loop that goes on to the next message before the response is sent
main_loop_send_skip ==
    /\ pc = "send"
    /\ mutex = "main"
    /\ mutex' = "free"
    /\ UNCHANGED cmd_vars
    /\ pc' = "recv"
    /\ UNCHANGED <<reader, received, out, msg, sent0, recv_at, initialize_id,
                   initialization_params, loopResult, mainResult>>

\* lines 176-177: send the response, continue
main_loop_send ==
    /\ pc = "send"
    /\ mutex = "main"
    /\ mutex' = "free"
    /\ UNCHANGED cmd_vars
    /\ out' = Append(out, definition_response(msg))
    /\ pc' = "recv"
    /\ UNCHANGED <<reader, received, msg, sent0, recv_at, initialize_id,
                   initialization_params, loopResult, mainResult>>

\* a loop that treats a response it cannot correlate as fatal
main_loop_response_mut ==
    /\ pc = "match"
    /\ UNCHANGED mutex
    /\ UNCHANGED cmd_vars
    /\ msg.kind = "Response"
    /\ LoopErr
    /\ UNCHANGED <<reader, received, out, msg, sent0, recv_at, initialize_id,
                   initialization_params>>

\* lines 183-185: Message::Response(resp)
main_loop_response ==
    /\ pc = "match"
    /\ UNCHANGED mutex
    /\ UNCHANGED cmd_vars
    /\ msg.kind = "Response"
    /\ pc' = "recv"
    /\ UNCHANGED <<reader, received, out, msg, sent0, recv_at, initialize_id,
                   initialization_params, loopResult, mainResult>>

\* a loop that answers a notification as if it were an unknown request
main_loop_notification_mut ==
    /\ pc = "match"
    /\ UNCHANGED mutex
    /\ UNCHANGED cmd_vars
    /\ msg.kind = "Notification"
    /\ out' = Append(out, new_err(NoId, MethodNotFound))
    /\ pc' = "recv"
    /\ UNCHANGED <<reader, received, msg, sent0, recv_at, initialize_id,
                   initialization_params, loopResult, mainResult>>

\* lines 186-188: Message::Notification(not)
main_loop_notification ==
    /\ pc = "match"
    /\ UNCHANGED mutex
    /\ UNCHANGED cmd_vars
    /\ msg.kind = "Notification"
    /\ pc' = "recv"
    /\ UNCHANGED <<reader, received, out, msg, sent0, recv_at, initialize_id,
                   initialization_params, loopResult, mainResult>>

(* ---- main: io_threads.join() (lines 66, 99) ---- *)
\* join returns once both io threads have ended.  The writer thread ends
\* when every Sender is dropped, and main still owns `connection`, so join
\* returns only with the reader thread's error.
join ==
    /\ pc = "join"
    /\ mutex' = "free"
    /\ UNCHANGED cmd_vars
    /\ reader = "failed"
    /\ MainErr
    /\ UNCHANGED <<reader, received, out, msg, sent0, recv_at, initialize_id,
                   initialization_params, loopResult>>

\* main from line 98 on: main_loop, then the join
NextLoop ==
    \/ main_loop_params
    \/ main_loop_lock
    \/ \E m \in Messages : main_loop_recv(m)
    \/ main_loop_recv_err
    \/ main_loop_request
    \/ \E m \in Messages : handle_shutdown(m)
    \/ handle_shutdown_err
    \/ main_loop_cast
    \/ main_loop_send
    \/ main_loop_response
    \/ main_loop_notification
    \/ join

Next ==
    \/ \E m \in Messages : initialize_start(m)
    \/ initialize_start_disconnected
    \/ initialize_finish_send
    \/ \E m \in Messages : initialize_finish(m)
    \/ initialize_finish_disconnected
    \/ NextLoop

Spec == Init /\ [][Next]_vars

(* ---- read_and_send_command (lines 121-147) ---- *)
\* the variables of the main thread, which read_and_send_command leaves alone
main_vars == <<pc, reader, received, msg, sent0, recv_at, initialize_id,
               initialization_params, loopResult, mainResult>>

\* lines 123, 136: File::open or serde_json::from_str fails, Err is returned
read_and_send_command_err ==
    /\ cmd_pc = "idle"
    /\ pc # "exit"
    /\ cmd_calls < MaxCmd
    /\ cmd_calls' = cmd_calls + 1
    /\ UNCHANGED <<main_vars, out, mutex, cmd_pc, command>>

\* a sender that does not take the mutex
read_and_send_command_mut(c) ==
    /\ cmd_pc = "idle"
    /\ pc # "exit"
    /\ cmd_calls < MaxCmd
    /\ cmd_calls' = cmd_calls + 1
    /\ command' = c
    /\ cmd_pc' = "send"
    /\ UNCHANGED <<main_vars, out, mutex>>

\* lines 123-139: the file is read and parsed as the Command c, then
\* let conn = connection.lock().unwrap() blocks until the mutex is free
read_and_send_command(c) ==
    /\ cmd_pc = "idle"
    /\ pc # "exit"
    /\ cmd_calls < MaxCmd
    /\ cmd_calls' = cmd_calls + 1
    /\ command' = c
    /\ mutex = "free"
    /\ mutex' = "cmd"
    /\ cmd_pc' = "send"
    /\ UNCHANGED <<main_vars, out>>

\* lines 140-146: conn.sender.send(Message::Request(..)), the guard is dropped
read_and_send_command_send ==
    /\ cmd_pc = "send"
    /\ pc # "exit"
    /\ out' = Append(out, Request(request_id(command), command.method,
                                  command.params))
    /\ mutex' = IF mutex = "cmd" THEN "free" ELSE mutex
    /\ cmd_pc' = "idle"
    /\ command' = NoCommand
    /\ UNCHANGED <<main_vars, cmd_calls>>

\* main at line 98 with a thread that calls read_and_send_command, as the
\* thread of lines 83-96 does: the handshake of line 62 is complete
InitCmd ==
    /\ pc = "main_loop"
    /\ reader = "open"
    /\ initialize_id \in Ids
    /\ initialization_params \in ParamsOf(INITIALIZE)
    /\ received = <<Request(initialize_id, INITIALIZE, initialization_params),
                    Notification(INITIALIZED, "null")>>
    /\ out = <<new_ok(initialize_id, InitializeResult)>>
    /\ msg = Notification(INITIALIZED, "null")
    /\ sent0 = 1
    /\ recv_at = "initialize_finish_recv"
    /\ loopResult = "none"
    /\ mainResult = "none"
    /\ mutex = "free"
    /\ cmd_pc = "idle"
    /\ command = NoCommand
    /\ cmd_calls = 0

\* what the peer sends while the command thread runs: a definition request,
\* shutdown, exit, and a response to a request of read_and_send_command
CmdMessages ==
    {Request(DefaultId, GOTO_DEFINITION, "GotoDefinitionParams"),
     Request(DefaultId, SHUTDOWN, "null"),
     Notification(EXIT, "null"),
     PeerResponse(DefaultId)}

NextCmd ==
    \/ main_loop_params
    \/ main_loop_lock
    \/ \E m \in CmdMessages : main_loop_recv(m)
    \/ main_loop_recv_err
    \/ main_loop_request
    \/ \E m \in CmdMessages : handle_shutdown(m)
    \/ handle_shutdown_err
    \/ main_loop_cast
    \/ main_loop_send
    \/ main_loop_response
    \/ main_loop_notification
    \/ join
    \/ \E c \in Commands : read_and_send_command(c)
    \/ read_and_send_command_err
    \/ read_and_send_command_send

SpecCmd == InitCmd /\ [][NextCmd]_vars

TypeOK ==
    /\ pc \in {"initialize_start", "initialize_finish", "initialize_finish_recv",
               "main_loop", "recv", "match", "handle_shutdown", "cast", "send",
               "join", "exit"}
    /\ reader \in {"open", "stopped", "failed"}
    /\ received \in Seq(Messages)
    /\ Len(received) <= MaxRecv
    /\ msg \in Messages \cup {NoMsg}
    /\ sent0 \in 0..Len(out)
    /\ recv_at \in {"none", "initialize_start", "initialize_finish_recv", "recv",
                    "handle_shutdown"}
    /\ loopResult \in {"none", "Ok", "Err", "panic"}
    /\ mainResult \in {"none", "Err", "panic"}
    /\ mutex \in {"free", "main", "cmd"}
    /\ cmd_pc \in {"none", "idle", "send"}
    /\ command \in Commands \cup {NoCommand}
    /\ cmd_calls \in Nat

(* ---- properties ---- *)
Last(s) == s[Len(s)]

\* the responses sent since msg was received
SentSince == SubSeq(out, sent0 + 1, Len(out))

\* msg was received by main_loop's own recv (lines 156-162): the server is
\* Running
ReceivedRunning == recv_at = "recv"

\* main_loop has finished handling msg and is back at its recv
Handled == ReceivedRunning /\ pc = "recv"

\* the message received before msg
Previous == IF Len(received) >= 2 THEN received[Len(received) - 1] ELSE NoMsg

\* C1: every request main_loop receives while Running gets exactly one
\* response carrying its id: once the loop has finished handling the request,
\* exactly one response with that id has been sent since it was received.
C1_ExactlyOneResponse ==
    (Handled /\ msg.kind = "Request") =>
        Cardinality({i \in 1..Len(SentSince) : SentSince[i].id = msg.id}) = 1

\* C2: an exit notification received while Running, without a shutdown
\* request before it, never ends with main_loop returning Ok.
C2_ExitWithoutShutdownIsError ==
    (ReceivedRunning /\ is_exit(msg)) => loopResult # "Ok"

\* C3: a shutdown request received while Running is answered with a success
\* response carrying its id; when the next message is exit, main_loop returns
\* Ok and sends nothing more; once main_loop has returned Ok no further
\* message is received and nothing more is sent.
C3_ShutdownThenExit ==
    /\ [](pc = "handle_shutdown" =>
            /\ ReceivedRunning /\ is_shutdown(msg)
            /\ SentSince = <<new_ok(msg.id, Unit)>>)
    /\ [][(pc = "handle_shutdown" /\ received' # received /\ is_exit(msg')) =>
            (loopResult' = "Ok" /\ out' = out /\ pc' = "join")]_vars
    /\ [][loopResult = "Ok" =>
            (received' = received /\ out' = out /\ loopResult' = "Ok")]_vars

C3_Witness ==
    /\ loopResult = "Ok"
    /\ recv_at = "handle_shutdown"
    /\ is_exit(msg)
    /\ is_shutdown(Previous)
    /\ Last(out) = new_ok(Previous.id, Unit)

\* C4: a request other than shutdown that arrives while ShuttingDown (after
\* the shutdown reply, before exit) is answered with an InvalidRequest error
\* response and the loop keeps running.
C4_RejectedWhileShuttingDown ==
    [][(pc = "handle_shutdown" /\ received' # received
          /\ msg'.kind = "Request" /\ ~is_shutdown(msg')) =>
            /\ out' = Append(out, new_err(msg'.id, InvalidRequest))
            /\ loopResult' = "none"
            /\ mainResult' = "none"]_vars

\* C5: a request other than initialize received while Uninitialized is
\* answered with a ServerNotInitialized error response carrying its id, and
\* nothing else changes: the server stays in initialize_start, main_loop is
\* not entered, and an initialize request received there is accepted.
C5_NotInitialized ==
    /\ [][(pc = "initialize_start" /\ received' # received
            /\ msg'.kind = "Request" /\ msg'.method # INITIALIZE) =>
              /\ out' = Append(out, new_err(msg'.id, ServerNotInitialized))
              /\ pc' = "initialize_start"
              /\ reader' = "open"
              /\ UNCHANGED <<initialize_id, initialization_params, loopResult,
                             mainResult>>]_vars
    /\ [][(pc = "initialize_start" /\ received' # received
            /\ is_initialize(msg')) =>
              /\ pc' = "initialize_finish"
              /\ initialize_id' = msg'.id
              /\ out' = out]_vars

C5_Witness ==
    /\ pc = "initialize_finish_recv"
    /\ Len(out) = 2
    /\ out[1] = new_err(received[1].id, ServerNotInitialized)
    /\ received[1].kind = "Request"
    /\ is_initialize(received[2])
    /\ out[2] = new_ok(received[2].id, InitializeResult)

\* a textDocument/definition request whose params decode
GoodDefinition(m) ==
    /\ m.kind = "Request"
    /\ m.method = GOTO_DEFINITION
    /\ DecodesGotoDefinitionParams(m.params)

\* C6: once initialize and initialized have been received (and the initialize
\* params decode) the server is Running, and every textDocument/definition
\* request with decodable params received while Running is handled without
\* failure and answered by exactly one response: a success response with the
\* request's id and the empty array as result, whatever was received before.
C6_DefinitionEmptyArray ==
    /\ [][(pc = "initialize_finish_recv" /\ received' # received
            /\ is_initialized(msg')) => pc' = "main_loop"]_vars
    /\ [][(pc = "main_loop" /\ DecodesInitializeParams(initialization_params)) =>
            pc' = "recv"]_vars
    /\ []((ReceivedRunning /\ GoodDefinition(msg)) =>
            /\ loopResult \in {"none", "Ok"}
            /\ pc \in {"match", "cast", "send", "recv", "join", "exit"}
            /\ pc \in {"recv", "join", "exit"} =>
                 SentSince = <<new_ok(msg.id, EmptyArray)>>)

\* a definition request answered after another definition request with the
\* same id was answered
C6_Witness ==
    /\ Handled
    /\ GoodDefinition(msg)
    /\ GoodDefinition(Previous)
    /\ Previous.id = msg.id
    /\ Len(out) >= 3
    /\ out[Len(out)] = new_ok(msg.id, EmptyArray)
    /\ out[Len(out) - 1] = new_ok(msg.id, EmptyArray)

\* C7: a textDocument/definition request whose params do not decode, received
\* while Running, is answered with an InvalidParams error response carrying
\* its id, and main_loop neither returns nor panics on it.
C7_InvalidParamsReply ==
    (ReceivedRunning /\ msg.kind = "Request" /\ msg.method = GOTO_DEFINITION
       /\ ~DecodesGotoDefinitionParams(msg.params)) =>
        /\ loopResult \notin {"Err", "panic"}
        /\ pc \in {"recv", "join", "exit"} =>
             SentSince = <<new_err(msg.id, InvalidParams)>>

\* C8: a request received while Running whose method is neither
\* textDocument/definition nor a lifecycle method is answered with a
\* MethodNotFound error response carrying its id, and the loop continues.
C8_MethodNotFoundReply ==
    (ReceivedRunning /\ msg.kind = "Request"
       /\ msg.method \notin {GOTO_DEFINITION, INITIALIZE, SHUTDOWN}) =>
        /\ loopResult \notin {"Err", "panic"}
        /\ pc \in {"recv", "join", "exit"} =>
             SentSince = <<new_err(msg.id, MethodNotFound)>>

\* C9: a notification received by main_loop (by its own recv, or inside
\* handle_shutdown) never causes a send: from its receipt until the next
\* message is received, nothing is added to the outbound channel.
C9_NotificationNoResponse ==
    /\ []((recv_at \in {"recv", "handle_shutdown"} /\ msg.kind = "Notification")
            => SentSince = <<>>)
    /\ [][(pc = "match" /\ msg.kind = "Notification") =>
            (out' = out /\ pc' = "recv")]_vars

\* a notification handled by the loop after a definition request was answered
C9_Witness ==
    /\ Handled
    /\ msg.kind = "Notification"
    /\ ~is_exit(msg)
    /\ GoodDefinition(Previous)
    /\ Last(out) = new_ok(Previous.id, EmptyArray)

ResponsesWith(o, id) == {i \in 1..Len(o) : o[i].id = id}

\* the requests received so far that carry `id`
RequestsWith(id) ==
    {i \in 1..Len(received) : received[i].kind = "Request" /\ received[i].id = id}

\* C11: no response is emitted for an id that is not pending at the peer, and
\* two requests with the same id never yield two responses to the later one:
\* every send is one response, it answers the request received last, it
\* carries that request's id, and it is the only response since that request
\* was received; so the responses carrying an id never outnumber the requests
\* received with it.
C11_NoResponseWithoutPending ==
    /\ [][out' # out =>
            /\ out' = Append(out, Last(out'))
            /\ msg'.kind = "Request"
            /\ Last(out').id = msg'.id
            /\ sent0' = Len(out)]_vars
    /\ [](\A id \in Ids :
            Cardinality(ResponsesWith(out, id)) <= Cardinality(RequestsWith(id)))

\* two requests with the same id, the first never answered: the second is
\* answered once
C11_Witness ==
    /\ Handled
    /\ GoodDefinition(msg)
    /\ Previous.kind = "Request"
    /\ Previous.method = "workspace/symbol"
    /\ Previous.id = msg.id
    /\ initialize_id # msg.id
    /\ Cardinality(RequestsWith(msg.id)) = 2
    /\ ResponsesWith(out, msg.id) = {Len(out)}

\* the lifecycle state the main thread's position stands for:
\* 0 Uninitialized, 1 Initializing, 2 Running, 3 ShuttingDown, 4 Exited
LifecycleRank(p) ==
    CASE p = "initialize_start" -> 0
      [] p \in {"initialize_finish", "initialize_finish_recv"} -> 1
      [] p \in {"main_loop", "recv", "match", "cast", "send"} -> 2
      [] p = "handle_shutdown" -> 3
      [] p \in {"join", "exit"} -> 4

\* C12: the lifecycle state never moves back: every step keeps or advances
\* it, a message handled while Running (a second initialize included) leaves
\* the server Running or ends the loop, and once main_loop or main has
\* returned nothing more is received or sent.
C12_LifecycleMonotonic ==
    /\ [][LifecycleRank(pc') >= LifecycleRank(pc)]_vars
    /\ [][(LifecycleRank(pc) = 4 \/ loopResult # "none") =>
            (received' = received /\ out' = out /\ LifecycleRank(pc') = 4
               /\ loopResult' = loopResult)]_vars

\* a second initialize request was handled while Running
C12_Witness ==
    /\ Handled
    /\ is_initialize(msg)
    /\ LifecycleRank(pc) = 2

\* C13: when receiving fails while Running (the inbound stream has ended),
\* main_loop returns Ok in that very step, without sending anything and
\* without receiving anything more.
C13_EndOfStreamOk ==
    [][(pc = "recv" /\ pc' # "recv" /\ received' = received) =>
         (loopResult' = "Ok" /\ pc' = "join" /\ out' = out
            /\ reader' # "open" /\ mainResult' = mainResult)]_vars

\* the stream ended cleanly after a definition request was answered
C13_Witness ==
    /\ loopResult = "Ok"
    /\ pc = "join"
    /\ reader = "stopped"
    /\ ReceivedRunning
    /\ GoodDefinition(msg)
    /\ SentSince = <<new_ok(msg.id, EmptyArray)>>

\* C15: the initialize params are validated before the server commits to
\* the handshake: once the capabilities reply has been sent and initialized
\* has been received (the server is Running), the params of the initialize
\* request decode as InitializeParams.
C15_ParamsValidatedBeforeRunning ==
    (LifecycleRank(pc) \in {2, 3} \/ loopResult # "none") =>
        DecodesInitializeParams(initialization_params)

\* C14: handling a request does not stop message intake: while a request is
\* being handled (its response is not yet sent) and the peer has a message
\* ready, main_loop can receive it.
C14_IntakeDuringHandling ==
    (pc \in {"cast", "send"} /\ reader = "open" /\ Len(received) < MaxRecv) =>
        ENABLED (\E m \in Messages : main_loop_recv(m))

\* the index in `received` of the initialize request that ended
\* initialize_start
FirstInitialize ==
    CHOOSE k \in 1..Len(received) :
        /\ is_initialize(received[k])
        /\ \A j \in 1..(k - 1) : ~is_initialize(received[j])

\* the messages main_loop's own recv has returned, in order
RunningReceived ==
    IF recv_at \in {"recv", "handle_shutdown"}
      THEN SubSeq(received, FirstInitialize + 2,
                  Len(received) - (IF recv_at = "handle_shutdown" THEN 1 ELSE 0))
      ELSE <<>>

IsDefinitionResponse(r) == r.result = EmptyArray

DefinitionRequests == SelectSeq(RunningReceived, GoodDefinition)
DefinitionResponses == SelectSeq(out, IsDefinitionResponse)

\* the definition request being handled, if any
InFlight ==
    IF pc \in {"match", "cast", "send"} /\ GoodDefinition(msg) THEN 1 ELSE 0

\* C19: definition responses follow the arrival order of their requests with
\* at most one request in flight: the responses sent so far answer, in order
\* and one each, the definition requests received while Running, except the
\* one request being handled right now.
C19_ResponsesInArrivalOrder ==
    /\ Len(DefinitionResponses) = Len(DefinitionRequests) - InFlight
    /\ \A i \in 1..Len(DefinitionResponses) :
         DefinitionResponses[i].id = DefinitionRequests[i].id

\* two definition requests with different ids, answered in arrival order
C19_Witness ==
    /\ Handled
    /\ Len(DefinitionRequests) = 2
    /\ DefinitionRequests[1].id # DefinitionRequests[2].id
    /\ Len(DefinitionResponses) = 2

\* an entry of `out` that is a request sent by read_and_send_command
IsOutgoingRequest(x) == "kind" \in DOMAIN x

\* C16: every send on the outbound channel happens while the sending thread
\* holds the connection mutex: a step that sends a request is taken with the
\* mutex held by the thread in read_and_send_command, a step that sends a
\* response with the mutex held by the main thread.
C16_SendsUnderMutex ==
    [][out' # out =>
         mutex = (IF IsOutgoingRequest(Last(out')) THEN "cmd" ELSE "main")]_vars

\* a request from read_and_send_command and a definition response have both
\* been sent
C16_Witness ==
    /\ \E i \in 1..Len(out) : IsOutgoingRequest(out[i])
    /\ \E i \in 1..Len(out) :
         ~IsOutgoingRequest(out[i]) /\ out[i].result = EmptyArray

\* the positions in `out` of the requests sent by read_and_send_command
OutgoingRequests == {i \in 1..Len(out) : IsOutgoingRequest(out[i])}

\* C17: outgoing request ids never repeat: no two requests sent by
\* read_and_send_command carry the same id.
C17_OutgoingIdsUnique ==
    \A i, j \in OutgoingRequests : out[i].id = out[j].id => i = j

\* C18: main_loop never reaches a connection.lock() while it still holds a
\* guard: when the main thread arrives at line 157, 166 or 176 the mutex is
\* not held by it, and between two of its lock() calls the mutex was released.
C18_NoSelfDeadlock ==
    /\ [][(pc' # pc /\ AtLock(pc', msg')) => mutex' # "main"]_vars
    /\ [](pc \in {"main_loop", "cast"} => mutex # "main")

\* the loop has locked for the receive, for handle_shutdown and for the send
\* of one definition request, and holds the mutex again for the next receive
C18_Witness ==
    /\ Handled
    /\ GoodDefinition(msg)
    /\ SentSince = <<new_ok(msg.id, EmptyArray)>>
    /\ mutex = "main"

====
